---- MODULE Spec2Model ----
(***************************************************************************)
(* Model of the surgical text-editing tools of termpipe-mcp                *)
(* (src/termpipe_mcp/tools/surgical.py).                                   *)
(*                                                                         *)
(* A text is a sequence of one-character strings.  One file is modelled:   *)
(* it either exists with some content or does not exist.  Every tool call  *)
(* is one action: it reads the file, decides, possibly writes the file     *)
(* back, and records what it was called with and what it returned in       *)
(* `last`.  For two calls running at the same time, the read of a call and *)
(* the two halves of its write (opening the file, which empties it, and    *)
(* writing the text) are separate steps, recorded in `calls` and `order`.  *)
(***************************************************************************)
EXTENDS Integers, Sequences, FiniteSets, TLC

VARIABLES
    file,   \* the backing storage of the one path: [exists, data]
    last,   \* record of the most recent tool call and its result
    calls,  \* the two concurrent calls: where each is and what it holds
    order,  \* the storage steps of the concurrent calls, in the order taken
    active_searches,  \* the table of search sessions: session id -> session
    session_history,  \* per session id: what the callers were told about it
    search_call       \* record of the most recent search-tool call

vars == <<file, last, calls, order, active_searches, session_history, search_call>>

\* the variables of the search tools
search_vars == <<active_searches, session_history, search_call>>

(***************************************************************************)
(* Bounds of the model.                                                    *)
(***************************************************************************)
MaxFileLen == 3     \* initial files: every text of at most this many characters
MaxRepeat == 11     \* initial files: k lines "a", for k up to this many
MaxSimilarLen == 2  \* fuzzy matcher: every list of at most this many lines

LF == "\n"
CR == "\r"
Chars == {"a", "A", LF, CR}

Min(a, b) == IF a < b THEN a ELSE b
Max(a, b) == IF a > b THEN a ELSE b

\* every text of length at most n
TextsUpTo(n) == UNION {[1..k -> Chars] : k \in 0..n}

(***************************************************************************)
(* Python built-ins used by the tools, computed as Python computes them.   *)
(***************************************************************************)

\* s[lo:hi] -- a slice clamps its bounds and counts a negative bound from the end
SliceIndex(i, n) == IF i < 0 THEN Max(i + n, 0) ELSE Min(i, n)
Slice(s, lo, hi) == SubSeq(s, SliceIndex(lo, Len(s)) + 1, SliceIndex(hi, Len(s)))

\* s[lo:] and s[:hi]
SliceFrom(s, lo) == SubSeq(s, SliceIndex(lo, Len(s)) + 1, Len(s))
SliceTo(s, hi) == SubSeq(s, 1, SliceIndex(hi, Len(s)))

\* the least index (1-based) of character c in s, or 0
RECURSIVE IndexOf(_, _, _)
IndexOf(s, c, from) ==
    IF from > Len(s) THEN 0
    ELSE IF s[from] = c THEN from
    ELSE IndexOf(s, c, from + 1)

\* a split that yields no line for the empty text and none after a final
\* separator, as str.splitlines does
RECURSIVE Split_SplitLines(_, _)
Split_SplitLines(s, sep) ==
    IF s = <<>> THEN <<>>
    ELSE LET k == IndexOf(s, sep, 1) IN
         IF k = 0 THEN <<s>>
         ELSE <<SubSeq(s, 1, k - 1)>> \o Split_SplitLines(SubSeq(s, k + 1, Len(s)), sep)

\* s.split("\n"): always at least one element
RECURSIVE Split(_, _)
Split(s, sep) ==
    LET k == IndexOf(s, sep, 1) IN
    IF k = 0 THEN <<s>>
    ELSE <<SubSeq(s, 1, k - 1)>> \o Split(SubSeq(s, k + 1, Len(s)), sep)

\* "\n".join(lines): the empty text for no lines
RECURSIVE Join(_, _)
Join(lines, sep) ==
    IF Len(lines) = 0 THEN <<>>
    ELSE IF Len(lines) = 1 THEN lines[1]
    ELSE lines[1] \o <<sep>> \o Join(Tail(lines), sep)

\* text-mode reading (universal newlines): "\r\n" and a lone "\r" become "\n"
RECURSIVE TranslateNewlines(_)
TranslateNewlines(s) ==
    IF Len(s) = 0 THEN <<>>
    ELSE IF s[1] = CR
         THEN <<LF>> \o TranslateNewlines(
                  IF Len(s) > 1 /\ s[2] = LF THEN SubSeq(s, 3, Len(s)) ELSE Tail(s))
         ELSE <<s[1]>> \o TranslateNewlines(Tail(s))

\* t occurs in s at 1-based position k
OccursAt(s, t, k) == k + Len(t) - 1 <= Len(s) /\ SubSeq(s, k, k + Len(t) - 1) = t

\* `t in s`: substring containment; the empty text is in every text
Contains(s, t) == \E k \in 1..(Len(s) + 1) : OccursAt(s, t, k)

\* s.count(t): non-overlapping occurrences, left to right; len(s)+1 for empty t
RECURSIVE CountFrom(_, _, _)
CountFrom(s, t, k) ==
    IF k + Len(t) - 1 > Len(s) THEN 0
    ELSE IF OccursAt(s, t, k) THEN 1 + CountFrom(s, t, k + Len(t))
    ELSE CountFrom(s, t, k + 1)
Count(s, t) == IF Len(t) = 0 THEN Len(s) + 1 ELSE CountFrom(s, t, 1)

\* str.replace putting `new` in the place of the first occurrence only
Replace_FirstOnly(s, old, new) ==
    IF \E k \in 1..(Len(s) + 1) : OccursAt(s, old, k)
    THEN LET k == CHOOSE k \in 1..(Len(s) + 1) :
                      /\ OccursAt(s, old, k)
                      /\ \A j \in 1..(k - 1) : ~OccursAt(s, old, j)
         IN SubSeq(s, 1, k - 1) \o new \o SubSeq(s, k + Len(old), Len(s))
    ELSE s

\* s.replace(old, new): every non-overlapping occurrence, left to right; an
\* empty `old` matches before every character and at the end
RECURSIVE ReplaceFrom(_, _, _, _)
ReplaceFrom(s, old, new, k) ==
    IF k > Len(s) THEN <<>>
    ELSE IF OccursAt(s, old, k) THEN new \o ReplaceFrom(s, old, new, k + Len(old))
    ELSE <<s[k]>> \o ReplaceFrom(s, old, new, k + 1)
RECURSIVE Interleave(_, _)
Interleave(s, new) ==
    IF Len(s) = 0 THEN new ELSE new \o <<s[1]>> \o Interleave(Tail(s), new)
Replace(s, old, new) ==
    IF Len(old) = 0 THEN Interleave(s, new) ELSE ReplaceFrom(s, old, new, 1)

(***************************************************************************)
(* Backing storage.  pathlib's exists / read_text / write_text on the one  *)
(* path.  read_text and write_text may raise; write_text opens the file    *)
(* for writing (which empties it) before it writes, so a failed write      *)
(* leaves the file either as it was (the open failed) or emptied.          *)
(***************************************************************************)
NoFile == [exists |-> FALSE, data |-> <<>>]
FileOf(text) == [exists |-> TRUE, data |-> text]

ReadOutcomes == {"ok", "error"}
WriteOutcomes == {"ok", "error", "truncated"}

\* _read_file_lines: raises FileNotFoundError for a missing path, else reads
\* the text and splits it at "\n"
read_file_lines(f, rd) ==
    IF ~f.exists
    THEN [exc |-> "FileNotFoundError", msg |-> "File not found", lines |-> <<>>, reads |-> 0]
    ELSE IF rd = "error"
    THEN [exc |-> "OSError", msg |-> "read_text failed", lines |-> <<>>, reads |-> 1]
    ELSE [exc |-> "none", msg |-> "",
          lines |-> Split(TranslateNewlines(f.data), LF), reads |-> 1]

\* a write that ends every line, the last one too, with "\n"
write_file_lines_TrailingNewline(f, lines, wr) ==
    IF wr = "ok" THEN [exc |-> "none", msg |-> "", file |-> FileOf(Join(lines, LF) \o <<LF>>)]
    ELSE IF wr = "truncated"
    THEN [exc |-> "OSError", msg |-> "write_text failed", file |-> FileOf(<<>>)]
    ELSE [exc |-> "OSError", msg |-> "write_text failed", file |-> f]

\* _write_file_lines: joins the lines with "\n" and writes the text
write_file_lines(f, lines, wr) ==
    IF wr = "ok" THEN [exc |-> "none", msg |-> "", file |-> FileOf(Join(lines, LF))]
    ELSE IF wr = "truncated"
    THEN [exc |-> "OSError", msg |-> "write_text failed", file |-> FileOf(<<>>)]
    ELSE [exc |-> "OSError", msg |-> "write_text failed", file |-> f]

(***************************************************************************)
(* The record of a call.  `result` is the kind of the returned text:       *)
(*   "ok"              the success text                                    *)
(*   "NotFound"        [Error: File not found: ...]                        *)
(*   "IOFailure"       [Error: <message of any other exception>]           *)
(*   "Uncaught"        no text: an exception left the tool                 *)
(*   "NoMatches"       No (exact) matches (found) for ...                  *)
(*   "OutOfRange"      [Error: (Start line|Line) N out of range ...]       *)
(*   "InvalidRange"    [Error: End line must be >= start line]             *)
(*   "TextNotFound"    [Error: Text not found (on line N|in file)]         *)
(*   "MultipleMatches" [Warning: Multiple matches on line N]               *)
(*   "WrongLine"       [Error: expected_line N doesn't contain the text]   *)
(*   "Ambiguous"       [Ambiguous: Found N matches]                        *)
(* An absent expected_line (None) is the empty set, a given one {n}.       *)
(* `undo` holds, for an insertion that puts back what the previous call    *)
(* deleted, the record of that delete_lines call.  `trace` is the sequence *)
(* of storage helpers the call invoked ("read" for _read_file_lines,       *)
(* "write" for _write_file_lines).  `ai_section` tells what follows the    *)
(* "AI Analysis:" heading of the result: "none" when the result has no     *)
(* such section, "analysis" for the explainer's answer, "error" for an     *)
(* [Error: ...] text of the explainer; `ai` is what the explainer did when  *)
(* the call consulted it.  `message` is the exception message an           *)
(* [Error: ...] text carries.  For read_lines, `end_given` is the          *)
(* end_line argument ({} for None) and `selected` the lines shown; for     *)
(* find_in_file, `listed` holds the reported line numbers and `shown` the  *)
(* line numbers printed around each of them.  For _find_similar_lines,     *)
(* `target` and `threshold` are its arguments and `similar` the candidates *)
(* it returns.                                                             *)
(***************************************************************************)
NoCall ==
    [op |-> "none", line_number |-> 0, start_line |-> 0, end_line |-> 0,
     content |-> <<>>, old_text |-> <<>>, new_text |-> <<>>, expected_line |-> {},
     existed |-> FALSE, before |-> <<>>,
     result |-> "none", lines |-> <<>>, reads |-> 0, writes |-> 0,
     rd |-> "none", wr |-> "none",
     at |-> 0, count |-> 0, listed |-> <<>>, deleted_content |-> <<>>,
     reported_last |-> 0, undo |-> <<>>,
     trace |-> <<>>, explainer_calls |-> 0, ai_section |-> "none",
     ai |-> "none", message |-> "", end_given |-> {}, selected |-> <<>>,
     pattern |-> <<>>, max_matches |-> 0, context |-> 0, shown |-> <<>>,
     target |-> <<>>, threshold |-> [num |-> 0, den |-> 1], similar |-> <<>>]

\* the exception classes raised inside a tool (those of the storage, and the
\* one of the explainer), all of them under Exception
ExceptionClasses == {"FileNotFoundError", "OSError", "Exception"}

\* except clauses that recover a missing file only
Except_FileNotFoundOnly(exc) ==
    IF exc = "FileNotFoundError" THEN "NotFound" ELSE "Uncaught"

\* the except clauses of every tool: `except FileNotFoundError` and `except
\* Exception` both return an [Error: ...] text
Except(exc) ==
    IF exc = "FileNotFoundError" THEN "NotFound"
    ELSE IF exc \in ExceptionClasses THEN "IOFailure"
    ELSE "Uncaught"

\* the read raised: the except clause answers with the exception's message
Raised(f, r) ==
    [file |-> f,
     out |-> [result |-> Except(r.exc),
              message |-> r.msg,
              reads |-> r.reads,
              rd |-> IF r.reads = 0 THEN "none" ELSE "error",
              trace |-> <<"read">>]]

\* a return before any write
Returned(f, kind, lines, extra) ==
    [file |-> f,
     out |-> extra @@ [result |-> kind, lines |-> lines, reads |-> 1, rd |-> "ok",
                       trace |-> <<"read">>]]

\* a write that is attempted a second time when it raises
Written_Retry(f, lines, out_lines, wr, extra) ==
    LET w == write_file_lines(f, out_lines, wr) IN
    [file |-> w.file,
     out |-> extra @@ [result |-> IF w.exc = "none" THEN "ok" ELSE Except(w.exc),
                       message |-> w.msg,
                       lines |-> lines, reads |-> 1, rd |-> "ok",
                       writes |-> IF w.exc = "none" THEN 1 ELSE 2, wr |-> wr,
                       trace |-> IF w.exc = "none" THEN <<"read", "write">>
                                 ELSE <<"read", "write", "write">>]]

\* _write_file_lines(path, lines) followed by the success text, or by the
\* except clause when the write raises
Written(f, lines, out_lines, wr, extra) ==
    LET w == write_file_lines(f, out_lines, wr) IN
    [file |-> w.file,
     out |-> extra @@ [result |-> IF w.exc = "none" THEN "ok" ELSE Except(w.exc),
                       message |-> w.msg,
                       lines |-> lines, reads |-> 1, rd |-> "ok",
                       writes |-> 1, wr |-> wr, trace |-> <<"read", "write">>]]

(***************************************************************************)
(* The diagnostic explainer.  What the completion service does on this     *)
(* call: "answer" (a text), "empty" (an empty text), "error" (missing      *)
(* credentials, a network error or an error response), "timeout", or       *)
(* "raises" (an exception inside _ai_analyze_error itself, such as a       *)
(* failing import).                                                        *)
(***************************************************************************)
ExplainerOutcomes == {"answer", "empty", "error", "timeout", "raises"}

\* iflow_query: the content on success, else an "[Error: ...]" text; it raises
\* nothing itself
iflow_query(ai) ==
    IF ai = "answer" THEN [exc |-> "none", text |-> "analysis"]
    ELSE IF ai = "empty" THEN [exc |-> "none", text |-> ""]
    ELSE IF ai \in {"error", "timeout"} THEN [exc |-> "none", text |-> "error"]
    ELSE [exc |-> "Exception", text |-> ""]

\* _ai_analyze_error: the text of iflow_query, or "" when anything raised
\* an explainer without its try/except
ai_analyze_error_Propagates(ai) == iflow_query(ai)

ai_analyze_error(ai) ==
    LET q == iflow_query(ai) IN
    IF q.exc # "none" THEN [exc |-> "none", text |-> ""] ELSE q

\* a failure return that consults the explainer before it returns: a non-empty
\* text is appended under "AI Analysis:"; an exception out of the explainer
\* would reach the except clause of the tool
Diagnosed(f, kind, lines, extra, ai) ==
    LET a == ai_analyze_error(ai) IN
    [file |-> f,
     out |-> [explainer_calls |-> 1, ai |-> ai] @@
             (IF a.exc # "none"
              THEN [result |-> Except(a.exc), message |-> "explainer failed",
                    lines |-> lines, reads |-> 1, rd |-> "ok",
                    trace |-> <<"read">>]
              ELSE [ai_section |-> IF a.text = "" THEN "none" ELSE a.text] @@ extra @@
                   [result |-> kind, lines |-> lines, reads |-> 1, rd |-> "ok",
                    trace |-> <<"read">>])]

(***************************************************************************)
(* The tools.  Each takes the file, its arguments and what the storage     *)
(* does on this call, and yields the file afterwards and the outputs.      *)
(***************************************************************************)

\* a clamp that forgets the lower bound
ClampIndex_NoLowerBound(line_number, n) ==
    IF line_number > n THEN n ELSE line_number

\* insert_lines: the index is clamped into [0, len(lines)]
ClampIndex(line_number, n) ==
    IF line_number < 0 THEN 0 ELSE IF line_number > n THEN n ELSE line_number

insert_lines(f, line_number, content, rd, wr) ==
    LET r == read_file_lines(f, rd) IN
    IF r.exc # "none" THEN Raised(f, r)
    ELSE
        LET lines == r.lines
            new_lines == Split(content, LF)
            n == ClampIndex(line_number, Len(lines))
            out_lines == SliceTo(lines, n) \o new_lines \o SliceFrom(lines, n)
        IN Written(f, lines, out_lines, wr, [at |-> n, count |-> Len(new_lines)])

\* the validation shared by replace_lines, replace_at_line and delete_lines
OutOfRange(index, n) == index < 0 \/ index >= n

\* replace_lines taking end_line as the last line replaced (inclusive)
replace_lines_InclusiveEnd(f, start_line, end_line, content, rd, wr) ==
    LET r == read_file_lines(f, rd) IN
    IF r.exc # "none" THEN Raised(f, r)
    ELSE
        LET lines == r.lines
            new_lines == Split(content, LF)
            out_lines == SliceTo(lines, start_line) \o new_lines
                             \o SliceFrom(lines, end_line + 1)
        IN
        IF OutOfRange(start_line, Len(lines)) THEN Returned(f, "OutOfRange", lines, <<>>)
        ELSE IF end_line < start_line THEN Returned(f, "InvalidRange", lines, <<>>)
        ELSE Written(f, lines, out_lines, wr,
                     [at |-> start_line, count |-> Len(new_lines),
                      reported_last |-> end_line - 1])

\* replace_lines comparing end with start before it validates start
replace_lines_RangeFirst(f, start_line, end_line, content, rd, wr) ==
    LET r == read_file_lines(f, rd) IN
    IF r.exc # "none" THEN Raised(f, r)
    ELSE
        LET lines == r.lines
            new_lines == Split(content, LF)
            out_lines == SliceTo(lines, start_line) \o new_lines \o SliceFrom(lines, end_line)
        IN
        IF end_line < start_line THEN Returned(f, "InvalidRange", lines, <<>>)
        ELSE IF OutOfRange(start_line, Len(lines)) THEN Returned(f, "OutOfRange", lines, <<>>)
        ELSE Written(f, lines, out_lines, wr,
                     [at |-> start_line, count |-> Len(new_lines),
                      reported_last |-> end_line - 1])

replace_lines(f, start_line, end_line, content, rd, wr) ==
    LET r == read_file_lines(f, rd) IN
    IF r.exc # "none" THEN Raised(f, r)
    ELSE
        LET lines == r.lines
            new_lines == Split(content, LF)
            out_lines == SliceTo(lines, start_line) \o new_lines \o SliceFrom(lines, end_line)
        IN
        IF OutOfRange(start_line, Len(lines)) THEN Returned(f, "OutOfRange", lines, <<>>)
        ELSE IF end_line < start_line THEN Returned(f, "InvalidRange", lines, <<>>)
        ELSE Written(f, lines, out_lines, wr,
                     [at |-> start_line, count |-> Len(new_lines),
                      reported_last |-> end_line - 1])

\* the 0-based numbers of the lines that contain t, ascending
MatchLines(lines, t) ==
    SelectSeq([i \in 1..Len(lines) |-> i - 1], LAMBDA n : Contains(lines[n + 1], t))

\* matches[:k]
FirstN(s, k) == SubSeq(s, 1, Min(k, Len(s)))

ElsewhereListed == 5    \* matches[:5] in replace_at_line's not-found text

\* replace_at_line applying the replacement on the first other line that holds
\* old_text when the target line does not
replace_at_line_FollowsSuggestion(f, line_number, old_text, new_text, rd, wr, ai) ==
    LET r == read_file_lines(f, rd) IN
    IF r.exc # "none" THEN Raised(f, r)
    ELSE
        LET lines == r.lines IN
        IF OutOfRange(line_number, Len(lines)) THEN Returned(f, "OutOfRange", lines, <<>>)
        ELSE
            LET matches == MatchLines(lines, old_text)
                target == IF Contains(lines[line_number + 1], old_text) \/ Len(matches) = 0
                          THEN line_number ELSE matches[1]
                line == lines[target + 1]
                out_lines == [lines EXCEPT ![target + 1] = Replace(line, old_text, new_text)]
            IN
            IF ~Contains(line, old_text)
            THEN Diagnosed(f, "TextNotFound", lines,
                           [at |-> line_number, count |-> Len(matches),
                            listed |-> FirstN(matches, ElsewhereListed)], ai)
            ELSE IF Count(line, old_text) > 1
            THEN Returned(f, "MultipleMatches", lines,
                          [at |-> line_number, count |-> Count(line, old_text)])
            ELSE Written(f, lines, out_lines, wr, [at |-> target, count |-> 1])

\* replace_at_line replacing old_text on every line of the file
replace_at_line_EveryLine(f, line_number, old_text, new_text, rd, wr, ai) ==
    LET r == read_file_lines(f, rd) IN
    IF r.exc # "none" THEN Raised(f, r)
    ELSE
        LET lines == r.lines IN
        IF OutOfRange(line_number, Len(lines)) THEN Returned(f, "OutOfRange", lines, <<>>)
        ELSE
            LET line == lines[line_number + 1]
                matches == MatchLines(lines, old_text)
                out_lines == [k \in 1..Len(lines) |-> Replace(lines[k], old_text, new_text)]
            IN
            IF ~Contains(line, old_text)
            THEN Diagnosed(f, "TextNotFound", lines,
                           [at |-> line_number, count |-> Len(matches),
                            listed |-> FirstN(matches, ElsewhereListed)], ai)
            ELSE IF Count(line, old_text) > 1
            THEN Returned(f, "MultipleMatches", lines,
                          [at |-> line_number, count |-> Count(line, old_text)])
            ELSE Written(f, lines, out_lines, wr, [at |-> line_number, count |-> 1])

replace_at_line(f, line_number, old_text, new_text, rd, wr, ai) ==
    LET r == read_file_lines(f, rd) IN
    IF r.exc # "none" THEN Raised(f, r)
    ELSE
        LET lines == r.lines IN
        IF OutOfRange(line_number, Len(lines)) THEN Returned(f, "OutOfRange", lines, <<>>)
        ELSE
            LET line == lines[line_number + 1]
                matches == MatchLines(lines, old_text)
                new_line == Replace(line, old_text, new_text)
                out_lines == [lines EXCEPT ![line_number + 1] = new_line]
            IN
            IF ~Contains(line, old_text)
            THEN Diagnosed(f, "TextNotFound", lines,
                           [at |-> line_number, count |-> Len(matches),
                            listed |-> FirstN(matches, ElsewhereListed)], ai)
            ELSE IF Count(line, old_text) > 1
            THEN Returned(f, "MultipleMatches", lines,
                          [at |-> line_number, count |-> Count(line, old_text)])
            ELSE Written(f, lines, out_lines, wr, [at |-> line_number, count |-> 1])

WrongLineListed == 5    \* matches[:5] in smart_replace's expected_line text

\* the ambiguous text cut like the expected_line text
AmbiguousListed_AsWrongLine == WrongLineListed

AmbiguousListed == 10   \* matches[:10] in smart_replace's ambiguous text

\* smart_replace numbering the matching lines from 1: the replacement lands on
\* the line after the match, and past the last line the assignment raises
smart_replace_OneBased(f, old_text, new_text, expected_line, rd, wr, ai) ==
    LET r == read_file_lines(f, rd) IN
    IF r.exc # "none" THEN Raised(f, r)
    ELSE
        LET lines == r.lines
            found == MatchLines(lines, old_text)
            exact == SelectSeq(found, LAMBDA ln : ln + 1 \in expected_line)
            narrowed == Len(found) > 1 /\ expected_line # {} /\ Len(exact) > 0
            matches == IF narrowed THEN exact ELSE found
        IN
        IF Len(found) = 0
        THEN Diagnosed(f, "TextNotFound", lines, <<>>, ai)
        ELSE IF Len(found) > 1 /\ expected_line # {} /\ Len(exact) = 0
        THEN Returned(f, "WrongLine", lines,
                      [count |-> Len(found), listed |-> FirstN(found, WrongLineListed)])
        ELSE IF Len(matches) > 1
        THEN Diagnosed(f, "Ambiguous", lines,
                       [count |-> Len(matches), listed |-> FirstN(matches, AmbiguousListed)],
                       ai)
        ELSE
            LET match_line == matches[1] + 1
                match_content == lines[matches[1] + 1]
            IN
            IF match_line >= Len(lines)
            THEN Returned(f, "IOFailure", lines, <<>>)
            ELSE Written(f, lines,
                         [lines EXCEPT
                             ![match_line + 1] = Replace(match_content, old_text, new_text)],
                         wr, [at |-> match_line, count |-> 1])

\* smart_replace ignoring expected_line among several matching lines: it
\* replaces on the first of them
smart_replace_FirstOfMany(f, old_text, new_text, expected_line, rd, wr, ai) ==
    LET r == read_file_lines(f, rd) IN
    IF r.exc # "none" THEN Raised(f, r)
    ELSE
        LET lines == r.lines
            found == MatchLines(lines, old_text)
            exact == SelectSeq(found, LAMBDA ln : ln \in expected_line)
            narrowed == Len(found) > 1 /\ expected_line # {} /\ Len(exact) > 0
            matches == IF narrowed THEN FirstN(found, 1) ELSE found
        IN
        IF Len(found) = 0
        THEN Diagnosed(f, "TextNotFound", lines, <<>>, ai)
        ELSE IF Len(found) > 1 /\ expected_line # {} /\ Len(exact) = 0
        THEN Returned(f, "WrongLine", lines,
                      [count |-> Len(found), listed |-> FirstN(found, WrongLineListed)])
        ELSE IF Len(matches) > 1
        THEN Diagnosed(f, "Ambiguous", lines,
                       [count |-> Len(matches), listed |-> FirstN(matches, AmbiguousListed)],
                       ai)
        ELSE
            LET match_line == matches[1]
                match_content == lines[match_line + 1]
                out_lines == [lines EXCEPT
                                 ![match_line + 1] = Replace(match_content, old_text, new_text)]
            IN Written(f, lines, out_lines, wr, [at |-> match_line, count |-> 1])

smart_replace(f, old_text, new_text, expected_line, rd, wr, ai) ==
    LET r == read_file_lines(f, rd) IN
    IF r.exc # "none" THEN Raised(f, r)
    ELSE
        LET lines == r.lines
            found == MatchLines(lines, old_text)
            exact == SelectSeq(found, LAMBDA ln : ln \in expected_line)
            narrowed == Len(found) > 1 /\ expected_line # {} /\ Len(exact) > 0
            matches == IF narrowed THEN exact ELSE found
        IN
        IF Len(found) = 0
        THEN Diagnosed(f, "TextNotFound", lines, <<>>, ai)
        ELSE IF Len(found) > 1 /\ expected_line # {} /\ Len(exact) = 0
        THEN Returned(f, "WrongLine", lines,
                      [count |-> Len(found), listed |-> FirstN(found, WrongLineListed)])
        ELSE IF Len(matches) > 1
        THEN Diagnosed(f, "Ambiguous", lines,
                       [count |-> Len(matches), listed |-> FirstN(matches, AmbiguousListed)],
                       ai)
        ELSE
            LET match_line == matches[1]
                match_content == lines[match_line + 1]
                out_lines == [lines EXCEPT
                                 ![match_line + 1] = Replace(match_content, old_text, new_text)]
            IN Written(f, lines, out_lines, wr, [at |-> match_line, count |-> 1])

\* delete_lines validating its start line only after it has written
delete_lines_WriteBeforeValidate(f, start_line, end_line, rd, wr) ==
    LET r == read_file_lines(f, rd) IN
    IF r.exc # "none" THEN Raised(f, r)
    ELSE
        LET lines == r.lines
            out_lines == SliceTo(lines, start_line) \o SliceFrom(lines, end_line)
            w == Written(f, lines, out_lines, wr,
                         [at |-> start_line, count |-> end_line - start_line,
                          reported_last |-> end_line - 1,
                          deleted_content |-> Slice(lines, start_line, end_line)])
        IN
        IF OutOfRange(start_line, Len(lines)) /\ w.out.result = "ok"
        THEN [file |-> w.file,
              out |-> [result |-> "OutOfRange", lines |-> lines, reads |-> 1,
                       rd |-> "ok", writes |-> 1, wr |-> wr]]
        ELSE w

\* delete_lines taking its end line as the last line to remove
delete_lines_InclusiveEnd(f, start_line, end_line, rd, wr) ==
    LET r == read_file_lines(f, rd) IN
    IF r.exc # "none" THEN Raised(f, r)
    ELSE
        LET lines == r.lines
            deleted_content == Slice(lines, start_line, end_line + 1)
            deleted == end_line - start_line
            out_lines == SliceTo(lines, start_line) \o SliceFrom(lines, end_line + 1)
        IN
        IF OutOfRange(start_line, Len(lines)) THEN Returned(f, "OutOfRange", lines, <<>>)
        ELSE Written(f, lines, out_lines, wr,
                     [at |-> start_line, count |-> deleted,
                      reported_last |-> end_line - 1,
                      deleted_content |-> deleted_content])

delete_lines(f, start_line, end_line, rd, wr) ==
    LET r == read_file_lines(f, rd) IN
    IF r.exc # "none" THEN Raised(f, r)
    ELSE
        LET lines == r.lines
            deleted_content == Slice(lines, start_line, end_line)
            deleted == end_line - start_line
            out_lines == SliceTo(lines, start_line) \o SliceFrom(lines, end_line)
        IN
        IF OutOfRange(start_line, Len(lines)) THEN Returned(f, "OutOfRange", lines, <<>>)
        ELSE Written(f, lines, out_lines, wr,
                     [at |-> start_line, count |-> deleted,
                      reported_last |-> end_line - 1,
                      deleted_content |-> deleted_content])

(***************************************************************************)
(* read_lines and find_in_file, the two tools that only read.              *)
(***************************************************************************)
\* read_lines: end_line None means start_line + 1
read_lines(f, start_line, end_given, rd) ==
    LET r == read_file_lines(f, rd) IN
    IF r.exc # "none" THEN Raised(f, r)
    ELSE
        LET lines == r.lines
            end_line == IF end_given = {} THEN start_line + 1
                        ELSE CHOOSE e \in end_given : TRUE
        IN
        IF OutOfRange(start_line, Len(lines)) THEN Returned(f, "OutOfRange", lines, <<>>)
        ELSE Returned(f, "ok", lines,
                      [end_line |-> end_line,
                       selected |-> Slice(lines, start_line, end_line),
                       at |-> start_line,
                       reported_last |-> Min(end_line, Len(lines)) - 1])

\* str.lower
Lower(s) == [k \in 1..Len(s) |-> IF s[k] = "A" THEN "a" ELSE s[k]]

\* the loop of find_in_file over lines[i..]: a matching line is appended
\* first, then the loop stops when max_matches are collected
RECURSIVE FindFrom(_, _, _, _, _)
FindFrom(lines, pattern, max_matches, i, matches) ==
    IF i >= Len(lines) THEN matches
    ELSE IF Contains(Lower(lines[i + 1]), Lower(pattern))
    THEN LET found == Append(matches, i) IN
         IF Len(found) >= max_matches THEN found
         ELSE FindFrom(lines, pattern, max_matches, i + 1, found)
    ELSE FindFrom(lines, pattern, max_matches, i + 1, matches)

\* the line numbers printed for one match: the match alone, or with context
\* the lines max(0, m - context) .. min(len, m + context + 1) - 1
ShownAround(m, context, n) ==
    IF context > 0
    THEN [k \in 1..(Min(n, m + context + 1) - Max(0, m - context)) |->
             Max(0, m - context) + k - 1]
    ELSE <<m>>

\* find_in_file; the similar lines it suggests when nothing matches are text
\* of the "no matches" answer and are not modelled
find_in_file(f, pattern, max_matches, context, rd) ==
    LET r == read_file_lines(f, rd) IN
    IF r.exc # "none" THEN Raised(f, r)
    ELSE
        LET lines == r.lines
            matches == FindFrom(lines, pattern, max_matches, 0, <<>>)
        IN
        IF matches = <<>> THEN Returned(f, "NoMatches", lines, <<>>)
        ELSE Returned(f, "ok", lines,
                      [count |-> Len(matches), listed |-> matches,
                       shown |-> [k \in 1..Len(matches) |->
                                     ShownAround(matches[k], context, Len(lines))]])

(***************************************************************************)
(* The fuzzy matcher, _find_similar_lines.  A score is a fraction          *)
(* [num, den] with den > 0; a candidate is [ln, score, how] where `how`    *)
(* tells whether the line was admitted by substring containment or by its  *)
(* similarity ratio.                                                       *)
(***************************************************************************)
Whitespace == {" ", LF, CR}

\* str.strip
RECURSIVE LStrip(_)
LStrip(s) == IF s # <<>> /\ s[1] \in Whitespace THEN LStrip(Tail(s)) ELSE s
RECURSIVE RStrip(_)
RStrip(s) ==
    IF s # <<>> /\ s[Len(s)] \in Whitespace THEN RStrip(SubSeq(s, 1, Len(s) - 1)) ELSE s
Strip(s) == RStrip(LStrip(s))

ScoreGE(x, y) == x.num * y.den >= y.num * x.den
ScoreGT(x, y) == x.num * y.den > y.num * x.den

\* the number of equal characters of a from i and of b from j (0-based),
\* within a[..ahi) and b[..bhi)
RECURSIVE RunLength(_, _, _, _, _, _)
RunLength(a, i, ahi, b, j, bhi) ==
    IF i < ahi /\ j < bhi /\ a[i + 1] = b[j + 1]
    THEN 1 + RunLength(a, i + 1, ahi, b, j + 1, bhi)
    ELSE 0

\* difflib.SequenceMatcher.find_longest_match: the longest block common to
\* a[alo:ahi] and b[blo:bhi]; of the longest, the one starting earliest in
\* a, and of those the one starting earliest in b
find_longest_match(a, alo, ahi, b, blo, bhi) ==
    LET blocks == {[i |-> i, j |-> j, size |-> RunLength(a, i, ahi, b, j, bhi)] :
                      i \in alo..(ahi - 1), j \in blo..(bhi - 1)}
        better(x, y) ==
            \/ x.size > y.size
            \/ x.size = y.size /\ x.i < y.i
            \/ x.size = y.size /\ x.i = y.i /\ x.j <= y.j
    IN IF blocks = {} THEN [i |-> alo, j |-> blo, size |-> 0]
       ELSE CHOOSE x \in blocks : \A y \in blocks : better(x, y)

\* difflib.SequenceMatcher.get_matching_blocks, summed: the longest block,
\* then the same to the left and to the right of it
RECURSIVE MatchingCount(_, _, _, _, _, _)
MatchingCount(a, alo, ahi, b, blo, bhi) ==
    IF alo >= ahi \/ blo >= bhi THEN 0
    ELSE LET m == find_longest_match(a, alo, ahi, b, blo, bhi) IN
         IF m.size = 0 THEN 0
         ELSE m.size + MatchingCount(a, alo, m.i, b, blo, m.j)
                     + MatchingCount(a, m.i + m.size, ahi, b, m.j + m.size, bhi)

\* difflib.SequenceMatcher(None, a, b).ratio(): 2 * matches / total length,
\* and 1 when both are empty
ratio(a, b) ==
    IF Len(a) + Len(b) = 0 THEN [num |-> 1, den |-> 1]
    ELSE [num |-> 2 * MatchingCount(a, 0, Len(a), b, 0, Len(b)), den |-> Len(a) + Len(b)]

SubstringScore == [num |-> 9, den |-> 10]     \* 0.9
DefaultThreshold == [num |-> 6, den |-> 10]   \* threshold: float = 0.6
SimilarLimit == 5                             \* [:5]

\* the loop of _find_similar_lines over lines[i..]
RECURSIVE SimilarFrom(_, _, _, _)
SimilarFrom(lines, target_lower, threshold, i) ==
    IF i >= Len(lines) THEN <<>>
    ELSE LET line_lower == Strip(Lower(lines[i + 1]))
             rest == SimilarFrom(lines, target_lower, threshold, i + 1)
             r == ratio(target_lower, line_lower)
         IN IF line_lower = <<>> THEN rest
            ELSE IF Contains(line_lower, target_lower) \/ Contains(target_lower, line_lower)
            THEN <<[ln |-> i, score |-> SubstringScore, how |-> "substring"]>> \o rest
            ELSE IF ScoreGE(r, threshold)
            THEN <<[ln |-> i, score |-> r, how |-> "ratio"]>> \o rest
            ELSE rest

\* a sort that puts a candidate before the candidates of equal score
RECURSIVE SortByScore_TiesReversed(_)
SortByScore_TiesReversed(results) ==
    IF results = <<>> THEN <<>>
    ELSE LET c == results[Len(results)]
             sorted == SortByScore_TiesReversed(SubSeq(results, 1, Len(results) - 1))
             k == Cardinality({n \in 1..Len(sorted) : ScoreGT(sorted[n].score, c.score)})
         IN SubSeq(sorted, 1, k) \o <<c>> \o SubSeq(sorted, k + 1, Len(sorted))

\* sorted(results, key=lambda x: -x[2]): descending score; the sort is
\* stable, so candidates of equal score keep their order
RECURSIVE SortByScore(_)
SortByScore(results) ==
    IF results = <<>> THEN <<>>
    ELSE LET c == results[Len(results)]
             sorted == SortByScore(SubSeq(results, 1, Len(results) - 1))
             k == Cardinality({n \in 1..Len(sorted) : ScoreGE(sorted[n].score, c.score)})
         IN SubSeq(sorted, 1, k) \o <<c>> \o SubSeq(sorted, k + 1, Len(sorted))

find_similar_lines(lines, target, threshold) ==
    FirstN(SortByScore(SimilarFrom(lines, Strip(Lower(target)), threshold, 0)),
           SimilarLimit)

(***************************************************************************)
(* Inputs.  The texts are chosen to hold every kind of character the       *)
(* tools treat differently; the line numbers run from below 0 to beyond    *)
(* the end of the file.                                                    *)
(***************************************************************************)
ContentTexts ==
    {<<>>, <<"A">>, <<"A", "a">>, <<"A", LF, "a">>, <<LF>>, <<"a", CR, "A">>}
OldTexts == {<<>>, <<"a">>, <<"A">>, <<"a", "A">>, <<LF>>}
NewTexts == {<<>>, <<"A">>, <<"a", "a">>, <<"A", LF>>, <<CR>>}

NumLines(f) == IF f.exists THEN Len(Split(TranslateNewlines(f.data), LF)) ELSE 1
LineNumbers == -2 .. (NumLines(file) + 1)
ExpectedLines == {{}} \cup {{n} : n \in LineNumbers}
MaxMatchesValues == {-1, 0, 1, 2, 50}
ContextValues == {0, 1}

\* Inputs of the fuzzy matcher: blank lines, lines that hold the target or
\* are held by it, and lines that only resemble it; with the target "aaabb",
\* "aacbb" has ratio 8/10 and "aaacbb" has ratio 10/11
SimilarPool ==
    {<<>>, <<" ">>, <<"b">>, <<"a", "c">>,
     <<"a", "a", "c", "b", "b">>,
     <<"a", "a", "a", "c", "b", "b">>,
     <<"c", "A", "a", "a", "b", "b">>}
SimilarTargets ==
    {<<>>, <<"c">>, <<"a", "b">>, <<" ", "A", " ">>, <<"a", "a", "a", "b", "b">>}
Thresholds == {DefaultThreshold, [num |-> 0, den |-> 1], [num |-> 1, den |-> 1]}

\* a list with more than five candidates for the target "aaabb"
ManySimilarLines ==
    << <<"a", "a", "c", "b", "b">>, <<"c", "A", "a", "a", "b", "b">>,
       <<"a", "a", "a", "c", "b", "b">>, <<" ">>, <<"b">>,
       <<"a", "a", "c", "b", "b">>, <<"c", "A", "a", "a", "b", "b">>,
       <<"a", "a", "a", "c", "b", "b">> >>

RECURSIVE ListsUpTo(_)
ListsUpTo(n) ==
    IF n = 0 THEN {<<>>}
    ELSE LET shorter == ListsUpTo(n - 1) IN
         shorter \cup {Append(l, x) : l \in {t \in shorter : Len(t) = n - 1},
                                      x \in SimilarPool}

SimilarLineLists == ListsUpTo(MaxSimilarLen) \cup {ManySimilarLines}

\* What the storage and the explainer do during one call.  A call whose read
\* raises reaches neither the write nor the explainer, and no path of a tool
\* reaches both the write and the explainer, so these are all the cases.
StorageCases ==
    {[rd |-> "error", wr |-> "ok"]} \cup {[rd |-> "ok", wr |-> w] : w \in WriteOutcomes}
ExplainedCases ==
    {[rd |-> c.rd, wr |-> c.wr, ai |-> "answer"] : c \in StorageCases}
        \cup {[rd |-> "ok", wr |-> "ok", ai |-> a] : a \in ExplainerOutcomes}

\* k lines "a"
RECURSIVE RepeatedLines(_)
RepeatedLines(k) == IF k <= 1 THEN <<"a">> ELSE <<"a", LF>> \o RepeatedLines(k - 1)

InitialTexts == TextsUpTo(MaxFileLen) \cup {RepeatedLines(k) : k \in 1..MaxRepeat}

\* a call is made when the previous result has been taken, and only on a file
\* the model starts from
Callable == last.op = "none" /\ (file.exists => file.data \in InitialTexts)

Called(op, args, o) ==
    /\ file' = o.file
    /\ last' = o.out @@ args @@
               [op |-> op, existed |-> file.exists, before |-> file.data] @@ NoCall
    /\ UNCHANGED <<calls, order, search_vars>>

InsertLines ==
    /\ Callable
    /\ \E line_number \in LineNumbers, content \in ContentTexts,
          env \in StorageCases :
        Called("insert_lines", [line_number |-> line_number, content |-> content],
                  insert_lines(file, line_number, content, env.rd, env.wr))

ReplaceLines ==
    /\ Callable
    /\ \E start_line \in LineNumbers, end_line \in LineNumbers, content \in ContentTexts,
          env \in StorageCases :
        Called("replace_lines",
                  [start_line |-> start_line, end_line |-> end_line, content |-> content],
                  replace_lines(file, start_line, end_line, content, env.rd, env.wr))

ReplaceAtLine ==
    /\ Callable
    /\ \E line_number \in LineNumbers, old_text \in OldTexts, new_text \in NewTexts,
          env \in ExplainedCases :
        Called("replace_at_line",
                  [line_number |-> line_number, old_text |-> old_text, new_text |-> new_text],
                  replace_at_line(file, line_number, old_text, new_text, env.rd, env.wr, env.ai))

SmartReplace ==
    /\ Callable
    /\ \E old_text \in OldTexts, new_text \in NewTexts, expected_line \in ExpectedLines,
          env \in ExplainedCases :
        Called("smart_replace",
                  [old_text |-> old_text, new_text |-> new_text,
                   expected_line |-> expected_line],
                  smart_replace(file, old_text, new_text, expected_line, env.rd, env.wr, env.ai))

DeleteLines ==
    /\ Callable
    /\ \E start_line \in LineNumbers, end_line \in LineNumbers,
          env \in StorageCases :
        Called("delete_lines", [start_line |-> start_line, end_line |-> end_line],
                  delete_lines(file, start_line, end_line, env.rd, env.wr))

ReadLines ==
    /\ Callable
    /\ \E start_line \in LineNumbers, end_given \in ExpectedLines, rd \in ReadOutcomes :
        Called("read_lines", [start_line |-> start_line, end_given |-> end_given],
                  read_lines(file, start_line, end_given, rd))

FindInFile ==
    /\ Callable
    /\ \E pattern \in OldTexts, max_matches \in MaxMatchesValues,
          context \in ContextValues, rd \in ReadOutcomes :
        Called("find_in_file",
                  [pattern |-> pattern, max_matches |-> max_matches, context |-> context],
                  find_in_file(file, pattern, max_matches, context, rd))

\* one call of the fuzzy matcher
FindSimilarLines ==
    /\ last.op = "none"
    /\ \E lines \in SimilarLineLists, target \in SimilarTargets, threshold \in Thresholds :
        last' = [op |-> "find_similar_lines", lines |-> lines, target |-> target,
                 threshold |-> threshold,
                 similar |-> find_similar_lines(lines, target, threshold)] @@ NoCall
    /\ UNCHANGED <<file, calls, order, search_vars>>

\* the caller takes the result; the next call starts afresh
Respond ==
    /\ last.op # "none"
    /\ last' = NoCall
    /\ UNCHANGED <<file, calls, order, search_vars>>

\* the caller puts back what the delete_lines call before it took out:
\* insert_lines at the same start line with the deleted lines joined by "\n"
Reinsert ==
    /\ last.op = "delete_lines"
    /\ last.result = "ok"
    /\ \E env \in StorageCases :
        LET content == Join(last.deleted_content, LF)
            o == insert_lines(file, last.start_line, content, env.rd, env.wr)
        IN /\ file' = o.file
           /\ last' = o.out @@
                      [op |-> "insert_lines", line_number |-> last.start_line,
                       content |-> content, existed |-> file.exists,
                       before |-> file.data, undo |-> <<last>>] @@ NoCall
           /\ UNCHANGED <<calls, order, search_vars>>

(***************************************************************************)
(* Two calls on the same file at the same time.  A call reads the file     *)
(* (_read_file_lines), decides from the lines it read, and, when it is to  *)
(* write, opens the file for writing, which empties it, and then writes    *)
(* its text from the start of the file (the two halves of write_text).     *)
(* Nothing is locked and nothing is compared before the write.             *)
(***************************************************************************)
Callers == {1, 2}

Idle ==
    [pc |-> "idle", op |-> "none", start_line |-> 0, end_line |-> 0, content |-> <<>>,
     seen |-> <<>>, writing |-> FALSE, pending |-> <<>>, result |-> "none"]

\* the calls the two callers make
ConcurrentCalls ==
    {[op |-> "replace_lines", start_line |-> s, end_line |-> e, content |-> c] :
        s \in 0..1, e \in 1..2, c \in {<<"A">>, <<"A", LF, "a">>}}
    \cup {[op |-> "delete_lines", start_line |-> s, end_line |-> s + 1, content |-> <<>>] :
             s \in 0..1}

\* the call made on file f with nothing else running
RunAlone(f, c) ==
    IF c.op = "replace_lines"
    THEN replace_lines(f, c.start_line, c.end_line, c.content, "ok", "ok")
    ELSE delete_lines(f, c.start_line, c.end_line, "ok", "ok")

\* a write that is refused when the file is no longer what the call read
WriteAllowed_VersionCheck(seen, current) == Split(TranslateNewlines(current), LF) = seen

\* _write_file_lines compares nothing before it writes
WriteAllowed(seen, current) == TRUE

\* the call reads the file and decides: a failure is returned at once, a
\* change is held until the write
ReadStep ==
    \E c \in Callers, a \in ConcurrentCalls :
        /\ calls[c].pc = "idle"
        /\ LET o == RunAlone(file, a)
               out == o.out @@ NoCall
           IN calls' = [calls EXCEPT ![c] =
                           a @@ [pc |-> IF out.writes = 1 THEN "read" ELSE "done",
                                 seen |-> out.lines,
                                 writing |-> out.writes = 1,
                                 pending |-> IF out.writes = 1 THEN o.file.data ELSE <<>>,
                                 result |-> IF out.writes = 1 THEN "none" ELSE out.result]]
        /\ order' = Append(order, <<c, "read">>)
        /\ UNCHANGED <<file, last, search_vars>>

\* write_text opens the file for writing: the file is emptied.  A write that
\* were refused would end the call with a conflict; _write_file_lines refuses
\* none.
OpenStep ==
    \E c \in Callers :
        /\ calls[c].pc = "read"
        /\ IF WriteAllowed(calls[c].seen, file.data)
           THEN /\ file' = FileOf(<<>>)
                /\ calls' = [calls EXCEPT ![c].pc = "opened"]
                /\ order' = Append(order, <<c, "open">>)
           ELSE /\ calls' = [calls EXCEPT ![c].pc = "done", ![c].result = "Conflict"]
                /\ UNCHANGED <<file, order>>
        /\ UNCHANGED <<last, search_vars>>

\* write_text writes its text from the start of the file and closes it: what
\* another writer put beyond the end of the text stays
FlushStep ==
    \E c \in Callers :
        /\ calls[c].pc = "opened"
        /\ file' = FileOf(calls[c].pending \o
                              SubSeq(file.data, Len(calls[c].pending) + 1, Len(file.data)))
        /\ calls' = [calls EXCEPT ![c].pc = "done", ![c].result = "ok"]
        /\ order' = Append(order, <<c, "flush">>)
        /\ UNCHANGED <<last, search_vars>>

(***************************************************************************)
(* The search tools (search.py).  The table _active_searches maps a        *)
(* session id to a session [type, pattern, results, path].  The id is      *)
(* made from the clock, and the command that searches (find or rg) is run  *)
(* by the system: both are inputs of a call.                               *)
(***************************************************************************)
\* the ids the clock can give; the same one can be given again
SearchIds == {"search_1", "search_2"}

\* _active_searches = {}
NoSearches == [id \in {} |-> {}]

NoSearchCall ==
    [op |-> "none", sessionId |-> "", result |-> "none", returned |-> "",
     total |-> 0, listed |-> <<>>, remaining |-> 0, before |-> NoSearches]

Paths == {".", "missing"}
ExistingPaths == {"."}

\* the table with one entry set: _active_searches[search_id] = session
Registered(searches, search_id, session) ==
    [id \in DOMAIN searches \cup {search_id} |->
        IF id = search_id THEN session ELSE searches[id]]

\* what subprocess.run can do: return the output of the command, or raise
RunOutcomes ==
    {[exc |-> "none", stdout |-> t] :
        t \in {<<>>, <<"a">>, <<"a", LF, "A">>, <<LF, "a", LF, LF, "A", LF>>}}
    \cup {[exc |-> e, stdout |-> <<>>] : e \in {"TimeoutExpired", "FileNotFoundError", "OSError"}}

\* the except clauses of start_search
StartFailure(exc) ==
    IF exc = "TimeoutExpired" THEN "Timeout"
    ELSE IF exc = "FileNotFoundError" THEN "RgMissing"
    ELSE "Error"

\* start_search: the results of a file search are the output lines that are
\* not empty and contain the pattern, cut to maxResults; those of a content
\* search are the non-empty ones of the first 2 * maxResults output lines,
\* cut to maxResults
start_search(searches, search_id, pattern, path, searchType, maxResults, run) ==
    IF path \notin ExistingPaths
    THEN [searches |-> searches, out |-> [result |-> "PathNotFound"]]
    ELSE IF run.exc # "none"
    THEN [searches |-> searches, out |-> [result |-> StartFailure(run.exc)]]
    ELSE
        LET stripped == Strip(run.stdout)
            files == SelectSeq(Split(stripped, LF),
                               LAMBDA f : f # <<>> /\ Contains(f, pattern))
            cut == Slice(files, 0, maxResults)
            lines == IF stripped # <<>> THEN Split(stripped, LF) ELSE <<>>
            results == SelectSeq(Slice(lines, 0, maxResults * 2), LAMBDA line : line # <<>>)
            session ==
                IF searchType = "files"
                THEN [type |-> "files", pattern |-> pattern,
                      results |-> [k \in 1..Len(cut) |-> [file |-> cut[k]]],
                      path |-> path]
                ELSE [type |-> "content", pattern |-> pattern,
                      results |-> Slice(results, 0, maxResults),
                      path |-> path]
        IN [searches |-> Registered(searches, search_id, session),
            out |-> [result |-> "started", returned |-> search_id,
                     total |-> Len(session.results)]]

\* get_more_search_results: results[offset:offset + length] of the session
get_more_search_results(searches, sessionId, offset, length) ==
    IF sessionId \notin DOMAIN searches
    THEN [searches |-> searches, out |-> [result |-> "NotFound"]]
    ELSE
        LET results == searches[sessionId].results
            total == Len(results)
            selected == Slice(results, offset, offset + length)
            remaining == total - offset - Len(selected)
        IN
        IF selected = <<>>
        THEN [searches |-> searches, out |-> [result |-> "NoMore", total |-> total]]
        ELSE [searches |-> searches,
              out |-> [result |-> "ok", total |-> total, listed |-> selected,
                       remaining |-> remaining]]

\* stop_search answering that the session is stopped while it keeps it
stop_search_KeepsSession(searches, sessionId) ==
    IF sessionId \in DOMAIN searches
    THEN [searches |-> searches, out |-> [result |-> "stopped"]]
    ELSE [searches |-> searches, out |-> [result |-> "NotFoundWarning"]]

\* stop_search: del _active_searches[sessionId]
stop_search(searches, sessionId) ==
    IF sessionId \in DOMAIN searches
    THEN [searches |-> [id \in DOMAIN searches \ {sessionId} |-> searches[id]],
          out |-> [result |-> "stopped"]]
    ELSE [searches |-> searches, out |-> [result |-> "NotFoundWarning"]]

\* list_searches: id, pattern, type and number of results of every session
list_searches(searches) ==
    IF DOMAIN searches = {}
    THEN [searches |-> searches, out |-> [result |-> "NoActiveSearches"]]
    ELSE [searches |-> searches,
          out |-> [result |-> "ok",
                   listed |-> {[sid |-> id, pattern |-> searches[id].pattern,
                                type |-> searches[id].type,
                                count |-> Len(searches[id].results)] :
                               id \in DOMAIN searches}]]

SearchPatterns == {<<>>, <<"a">>}
MaxResultsValues == {-1, 0, 1, 2}
Offsets == {-1, 0, 1}
Lengths == {0, 1, 50}

\* a call of a search tool: the table the tool leaves, the record of the
\* call, and what the caller now knows of the session ids
SearchCalled(op, sessionId, o) ==
    /\ active_searches' = o.searches
    /\ search_call' = o.out @@
                      [op |-> op, sessionId |-> sessionId, before |-> active_searches]
                      @@ NoSearchCall
    /\ session_history' =
           IF op = "start_search" /\ o.out.result = "started"
           THEN [session_history EXCEPT ![o.out.returned] = "started"]
           ELSE IF op = "stop_search"
           THEN [session_history EXCEPT ![sessionId] = "stopped"]
           ELSE session_history
    /\ UNCHANGED <<file, last, calls, order>>

StartSearch ==
    \E search_id \in SearchIds, pattern \in SearchPatterns, path \in Paths,
       searchType \in {"files", "content"}, maxResults \in MaxResultsValues,
       run \in RunOutcomes :
        SearchCalled("start_search", "",
                     start_search(active_searches, search_id, pattern, path, searchType,
                                  maxResults, run))

GetMoreSearchResults ==
    \E sessionId \in SearchIds, offset \in Offsets, length \in Lengths :
        SearchCalled("get_more_search_results", sessionId,
                     get_more_search_results(active_searches, sessionId, offset, length))

StopSearch ==
    \E sessionId \in SearchIds :
        SearchCalled("stop_search", sessionId, stop_search(active_searches, sessionId))

ListSearches ==
    SearchCalled("list_searches", "", list_searches(active_searches))

\* no search has been started
InitSearches ==
    /\ active_searches = NoSearches
    /\ session_history = [id \in SearchIds |-> "never"]
    /\ search_call = NoSearchCall

Init ==
    /\ file \in {NoFile} \cup {FileOf(t) : t \in InitialTexts}
    /\ last = NoCall
    /\ calls = [c \in Callers |-> Idle]
    /\ order = <<>>
    /\ InitSearches

Next ==
    \/ InsertLines \/ ReplaceLines \/ ReplaceAtLine \/ SmartReplace \/ DeleteLines
    \/ ReadLines \/ FindInFile
    \/ Respond

Spec == Init /\ [][Next]_vars

\* callers of the fuzzy matcher only
InitSimilar ==
    /\ file = NoFile
    /\ last = NoCall
    /\ calls = [c \in Callers |-> Idle]
    /\ order = <<>>
    /\ InitSearches

\* callers of the search tools only
NextSearch == StartSearch \/ GetMoreSearchResults \/ StopSearch \/ ListSearches

SpecSearch == InitSimilar /\ [][NextSearch]_vars

NextSimilar == FindSimilarLines \/ Respond

SpecSimilar == InitSimilar /\ [][NextSimilar]_vars

\* callers of the two text replacements only
NextTextReplace == ReplaceAtLine \/ SmartReplace \/ Respond

SpecTextReplace == Init /\ [][NextTextReplace]_vars

\* callers of the three line-range mutations only
NextLineRanges == InsertLines \/ ReplaceLines \/ DeleteLines \/ Respond

SpecLineRanges == Init /\ [][NextLineRanges]_vars

\* two callers at the same time
NextConcurrent == ReadStep \/ OpenStep \/ FlushStep

SpecConcurrent == Init /\ [][NextConcurrent]_vars

\* a caller that deletes lines and then puts them back
NextRoundTrip == DeleteLines \/ Reinsert \/ Respond

SpecRoundTrip == Init /\ [][NextRoundTrip]_vars

(***************************************************************************)
(* Vocabulary of the properties.                                           *)
(***************************************************************************)
MutationOps ==
    {"insert_lines", "delete_lines", "replace_lines", "replace_at_line", "smart_replace"}

\* the failure results other than a storage failure
FailureKinds ==
    {"NotFound", "OutOfRange", "InvalidRange", "TextNotFound", "Ambiguous", "WrongLine"}

\* the call found the file and the storage raised nothing during it
StorageWorked == last.existed /\ last.rd = "ok" /\ last.wr \in {"none", "ok"}

\* the file is what it was before the call
FileUntouched == file = [exists |-> last.existed, data |-> last.before]

\* what a read of the file yields now
ReadBack == Split(TranslateNewlines(file.data), LF)

HasCR(t) == \E k \in 1..Len(t) : t[k] = CR
HasNewline(t) == \E k \in 1..Len(t) : t[k] \in {LF, CR}

\* the lines before 0-based line n, and the lines from line n on
Before(lines, n) == SubSeq(lines, 1, n)
From(lines, n) == SubSeq(lines, n + 1, Len(lines))

(***************************************************************************)
(* C1: a mutation that returns a failure result (file not found, line out  *)
(* of range, invalid range, text not found, ambiguous, expected_line       *)
(* mismatch, or a storage read error) has issued no write, and the file    *)
(* is exactly what it was before the call; a path that did not exist still *)
(* does not exist.                                                         *)
(***************************************************************************)
C1_FailureLeavesFileUntouched ==
    (/\ last.op \in MutationOps
     /\ \/ last.result \in FailureKinds
        \/ last.result = "IOFailure" /\ last.rd = "error")
    => (last.writes = 0 /\ FileUntouched /\ (~last.existed => ~file.exists))

C1_Witness ==
    /\ last.op = "delete_lines"
    /\ last.result = "OutOfRange"
    /\ last.start_line < 0
    /\ Len(last.lines) > 1
    /\ FileUntouched

(***************************************************************************)
(* C2 as stated: for 0 <= start <= end <= len(lines), start = end =        *)
(* len(lines) included, replace_lines succeeds and a following read yields *)
(* lines[:start] + split(C) + lines[end:].                                 *)
(***************************************************************************)
C2_Original ==
    (/\ last.op = "replace_lines"
     /\ StorageWorked
     /\ 0 <= last.start_line
     /\ last.start_line <= last.end_line
     /\ last.end_line <= Len(last.lines))
    => /\ last.result = "ok"
       /\ ReadBack = Before(last.lines, last.start_line) \o Split(last.content, LF)
                         \o From(last.lines, last.end_line)

(***************************************************************************)
(* C2 amended: for 0 <= start < len(lines) and start <= end <= len(lines), *)
(* replace_lines succeeds and writes exactly lines[:start] + split(C) +    *)
(* lines[end:], which is also what a following read yields when C holds no *)
(* carriage return; with start = len(lines) the call fails with OutOfRange *)
(* and leaves the file untouched.                                          *)
(***************************************************************************)
C2_ReplaceLinesSplices ==
    (/\ last.op = "replace_lines"
     /\ StorageWorked
     /\ 0 <= last.start_line
     /\ last.start_line <= last.end_line
     /\ last.end_line <= Len(last.lines))
    => LET expected == Before(last.lines, last.start_line) \o Split(last.content, LF)
                           \o From(last.lines, last.end_line)
       IN IF last.start_line < Len(last.lines)
          THEN /\ last.result = "ok"
               /\ file.data = Join(expected, LF)
               /\ ~HasCR(last.content) => ReadBack = expected
          ELSE last.result = "OutOfRange" /\ last.writes = 0 /\ FileUntouched

C2_Witness ==
    /\ last.op = "replace_lines"
    /\ last.result = "ok"
    /\ last.lines = << <<"a">>, <<"a">>, <<"a">> >>
    /\ last.start_line = 1
    /\ last.end_line = 2
    /\ last.content = <<"A", LF, "a">>
    /\ ReadBack = << <<"a">>, <<"A">>, <<"a">>, <<"a">> >>

(***************************************************************************)
(* C3: insert_lines on an existing file never fails because of its index:  *)
(* the effective index is i clamped into [0, len(lines)] and the file      *)
(* afterwards is lines[:i'] + split(C) + lines[i':]; i >= len(lines)       *)
(* appends after the last line and i < 0 inserts before line 0.            *)
(***************************************************************************)
C3_InsertClamps ==
    (last.op = "insert_lines" /\ StorageWorked)
    => LET n == Len(last.lines)
           i == Max(0, Min(last.line_number, n))
           new_lines == Split(last.content, LF)
       IN /\ last.result = "ok"
          /\ last.at = i
          /\ file.data = Join(Before(last.lines, i) \o new_lines \o From(last.lines, i), LF)
          /\ last.line_number >= n => file.data = Join(last.lines \o new_lines, LF)
          /\ last.line_number < 0 => file.data = Join(new_lines \o last.lines, LF)

C3_Witness ==
    /\ last.op = "insert_lines"
    /\ last.result = "ok"
    /\ last.line_number < 0
    /\ Len(last.lines) > 1
    /\ last.lines[1] # last.lines[2]
    /\ Len(last.content) > 0
    /\ file.data = Join(Split(last.content, LF) \o last.lines, LF)

(***************************************************************************)
(* C4 as stated: for start in range and every end >= start (end = start,   *)
(* end beyond the file length and a range covering every line included),   *)
(* delete_lines followed by insert_lines at start with the deleted lines   *)
(* joined by newline restores the file content exactly.                    *)
(***************************************************************************)
RoundTripDone ==
    /\ last.op = "insert_lines"
    /\ last.undo # <<>>
    /\ StorageWorked
    /\ last.undo[1].wr = "ok"

C4_Original ==
    (RoundTripDone /\ last.undo[1].end_line >= last.undo[1].start_line)
    => file.data = last.undo[1].before

(***************************************************************************)
(* C4 amended: for start in range and end > start (end beyond the file     *)
(* length included) where the range does not cover every line of the file, *)
(* delete_lines followed by insert_lines at start with the deleted lines   *)
(* joined by newline restores the line sequence of the file exactly, and   *)
(* its content exactly when the content held no carriage return.  With     *)
(* end = start, or with a range covering every line, the file ends up with *)
(* one empty line more than it had (at start, respectively at the end).    *)
(***************************************************************************)
C4_RoundTripRestores ==
    (RoundTripDone /\ last.undo[1].end_line >= last.undo[1].start_line)
    => LET d == last.undo[1]
           EmptyLine == << <<>> >>
       IN IF d.end_line = d.start_line
          THEN ReadBack = Before(d.lines, d.start_line) \o EmptyLine
                              \o From(d.lines, d.start_line)
          ELSE IF d.start_line = 0 /\ d.end_line >= Len(d.lines)
          THEN ReadBack = d.lines \o EmptyLine
          ELSE /\ ReadBack = d.lines
               /\ ~HasCR(d.before) => file.data = d.before

C4_Witness ==
    /\ RoundTripDone
    /\ last.undo[1].start_line = 1
    /\ last.undo[1].end_line > Len(last.undo[1].lines)
    /\ Len(last.undo[1].lines) = 3
    /\ Len(last.undo[1].deleted_content) = 2
    /\ file.data = last.undo[1].before

(***************************************************************************)
(* C5: replace_at_line with the line number in range and old_text not a    *)
(* substring of that line writes nothing, leaves the file unchanged and    *)
(* returns a text-not-found failure, whether or not old_text occurs on     *)
(* other lines.                                                            *)
(***************************************************************************)
C5_AbsentTextIsNoOp ==
    (/\ last.op = "replace_at_line"
     /\ last.existed
     /\ last.rd = "ok"
     /\ 0 <= last.line_number
     /\ last.line_number < Len(last.lines)
     /\ ~Contains(last.lines[last.line_number + 1], last.old_text))
    => (last.result = "TextNotFound" /\ last.writes = 0 /\ FileUntouched)

C5_Witness ==
    /\ last.op = "replace_at_line"
    /\ last.result = "TextNotFound"
    /\ last.count > 0
    /\ last.listed # <<>>
    /\ last.lines[last.listed[1] + 1] # last.lines[last.line_number + 1]
    /\ FileUntouched

(***************************************************************************)
(* C6: when old_text occurs more than once on the target line,             *)
(* replace_at_line still proceeds: it replaces every occurrence on that    *)
(* line, writes the file, and flags the multiplicity in its result.        *)
(***************************************************************************)
C6_MultipleOnLineProceeds ==
    (/\ last.op = "replace_at_line"
     /\ StorageWorked
     /\ 0 <= last.line_number
     /\ last.line_number < Len(last.lines)
     /\ Count(last.lines[last.line_number + 1], last.old_text) > 1)
    => /\ last.writes = 1
       /\ file.data =
              Join([last.lines EXCEPT ![last.line_number + 1] =
                        Replace(last.lines[last.line_number + 1],
                                last.old_text, last.new_text)], LF)

(***************************************************************************)
(* C7: a successful replace_at_line changes only line i: what is written   *)
(* is the old lines with line i replaced by the old line i with old_text   *)
(* replaced by new_text; the lines before and after it read back           *)
(* unchanged; and when new_text holds no newline character the number of   *)
(* lines is unchanged and every line but line i reads back as it was.      *)
(***************************************************************************)
C7_ReplaceAtLineFrame ==
    (last.op = "replace_at_line" /\ last.result = "ok")
    => LET i == last.line_number
           n == Len(last.lines)
           new_line == Replace(last.lines[i + 1], last.old_text, last.new_text)
           after == ReadBack
       IN /\ 0 <= i /\ i < n
          /\ file.data = Join([last.lines EXCEPT ![i + 1] = new_line], LF)
          /\ Len(after) >= n
          /\ Before(after, i) = Before(last.lines, i)
          /\ From(after, Len(after) - (n - i - 1)) = From(last.lines, i + 1)
          /\ ~HasNewline(last.new_text) =>
                 /\ Len(after) = n
                 /\ after[i + 1] = new_line
                 /\ \A k \in 1..n : k # i + 1 => after[k] = last.lines[k]

C7_Witness ==
    /\ last.op = "replace_at_line"
    /\ last.result = "ok"
    /\ Len(last.lines) = 3
    /\ last.line_number = 1
    /\ last.lines[1] = last.lines[2]
    /\ ~HasNewline(last.new_text)
    /\ ReadBack[2] # last.lines[2]
    /\ ReadBack[1] = last.lines[1]

(***************************************************************************)
(* C8: smart_replace with old_text on exactly one line of the file and no  *)
(* expected_line succeeds and changes only that line: every other line is  *)
(* the same before and after the call.                                     *)
(***************************************************************************)
LinesHolding(lines, t) == {k \in 1..Len(lines) : Contains(lines[k], t)}

C8_UniqueMatchFrame ==
    (/\ last.op = "smart_replace"
     /\ StorageWorked
     /\ last.expected_line = {}
     /\ Cardinality(LinesHolding(last.lines, last.old_text)) = 1)
    => LET k == CHOOSE k \in LinesHolding(last.lines, last.old_text) : TRUE
           n == Len(last.lines)
           after == ReadBack
       IN /\ last.result = "ok"
          /\ last.at = k - 1
          /\ file.data =
                 Join([last.lines EXCEPT
                          ![k] = Replace(last.lines[k], last.old_text, last.new_text)], LF)
          /\ Len(after) >= n
          /\ Before(after, k - 1) = Before(last.lines, k - 1)
          /\ From(after, Len(after) - (n - k)) = From(last.lines, k)

C8_Witness ==
    /\ last.op = "smart_replace"
    /\ last.result = "ok"
    /\ last.expected_line = {}
    /\ Len(last.lines) = 3
    /\ last.at = 1
    /\ Len(ReadBack) = 3
    /\ ReadBack[1] = last.lines[1]
    /\ ReadBack[2] # last.lines[2]
    /\ ReadBack[3] = last.lines[3]

(***************************************************************************)
(* C9 as stated: smart_replace with old_text on N > 1 lines and no         *)
(* expected_line writes nothing and returns an Ambiguous failure whose     *)
(* candidate list holds the line numbers of all N matching lines, for      *)
(* every N.                                                                *)
(***************************************************************************)
AmbiguousCall ==
    /\ last.op = "smart_replace"
    /\ last.existed
    /\ last.rd = "ok"
    /\ last.expected_line = {}
    /\ Cardinality(LinesHolding(last.lines, last.old_text)) > 1

C10_WrongExpectedLineIsError ==
    (/\ last.op = "smart_replace"
     /\ last.existed
     /\ last.rd = "ok"
     /\ last.expected_line # {}
     /\ \A n \in last.expected_line : n + 1 \notin LinesHolding(last.lines, last.old_text))
    => (last.result \in FailureKinds /\ last.writes = 0 /\ FileUntouched)

(***************************************************************************)
(* C11: when old_text occurs on several lines and expected_line is the     *)
(* number of one of them, smart_replace replaces on that line only: what   *)
(* is written is the old lines with that one line replaced, the lines      *)
(* before and after it read back unchanged, and so every other matching    *)
(* line still contains old_text.                                           *)
(***************************************************************************)
C11_ExpectedLineNarrows ==
    (/\ last.op = "smart_replace"
     /\ StorageWorked
     /\ Cardinality(LinesHolding(last.lines, last.old_text)) > 1
     /\ \E e \in last.expected_line : e + 1 \in LinesHolding(last.lines, last.old_text))
    => LET e == CHOOSE e \in last.expected_line : TRUE
           n == Len(last.lines)
           after == ReadBack
           shift == Len(after) - n
       IN /\ last.result = "ok"
          /\ last.at = e
          /\ file.data =
                 Join([last.lines EXCEPT
                          ![e + 1] = Replace(last.lines[e + 1], last.old_text,
                                             last.new_text)], LF)
          /\ shift >= 0
          /\ Before(after, e) = Before(last.lines, e)
          /\ From(after, e + 1 + shift) = From(last.lines, e + 1)
          /\ \A k \in LinesHolding(last.lines, last.old_text) :
                 /\ k < e + 1 => Contains(after[k], last.old_text)
                 /\ k > e + 1 => Contains(after[k + shift], last.old_text)

C11_Witness ==
    /\ last.op = "smart_replace"
    /\ last.result = "ok"
    /\ last.expected_line = {1}
    /\ last.old_text = <<"a">>
    /\ Len(last.lines) = 3
    /\ LinesHolding(last.lines, last.old_text) = {1, 2, 3}
    /\ ReadBack = << <<"a">>, <<"A">>, <<"a">> >>

(***************************************************************************)
(* C12: delete_lines with start in range and end >= start removes exactly  *)
(* the lines [start, min(end, len(lines))): what is written is             *)
(* lines[:start] + lines[min(end, len):], an end beyond the file length is *)
(* accepted and clamped, and the result carries exactly the removed lines  *)
(* lines[start:min(end, len)] as the deleted content.                      *)
(***************************************************************************)
C12_DeleteRemovesHalfOpenRange ==
    (/\ last.op = "delete_lines"
     /\ StorageWorked
     /\ 0 <= last.start_line
     /\ last.start_line < Len(last.lines)
     /\ last.end_line >= last.start_line)
    => LET n == Len(last.lines)
           stop == IF last.end_line < n THEN last.end_line ELSE n
       IN /\ last.result = "ok"
          /\ file.data = Join(Before(last.lines, last.start_line) \o From(last.lines, stop), LF)
          /\ last.deleted_content = SubSeq(last.lines, last.start_line + 1, stop)

C12_Witness ==
    /\ last.op = "delete_lines"
    /\ last.result = "ok"
    /\ Len(last.lines) = 3
    /\ last.start_line = 1
    /\ last.end_line > Len(last.lines)
    /\ Len(last.deleted_content) = 2
    /\ ReadBack = << last.lines[1] >>

(***************************************************************************)
(* C13: delete_lines called with start in range and an end smaller than    *)
(* start (a negative end included) fails with InvalidRange and writes      *)
(* nothing; in particular the file has no more lines after the call than   *)
(* it had before.                                                          *)
(***************************************************************************)
C13_DeleteRejectsEndBeforeStart ==
    (/\ last.op = "delete_lines"
     /\ StorageWorked
     /\ 0 <= last.start_line
     /\ last.start_line < Len(last.lines)
     /\ last.end_line < last.start_line)
    => /\ last.result = "InvalidRange"
       /\ last.writes = 0
       /\ FileUntouched
       /\ Len(ReadBack) <= Len(last.lines)

(***************************************************************************)
(* C14 speaks of calls that found the file and read it.                    *)
(***************************************************************************)
FileRead == last.existed /\ last.rd = "ok"

(***************************************************************************)
(* C14: replace_lines, delete_lines and replace_at_line return OutOfRange  *)
(* whenever their start line or line number is < 0 or >= len(lines);       *)
(* replace_lines returns InvalidRange whenever start is in range and       *)
(* end < start; and with start out of range and end < start the result is  *)
(* OutOfRange.  None of these writes.                                      *)
(***************************************************************************)
C14_IndexValidation ==
    LET n == Len(last.lines)
        outside(i) == i < 0 \/ i >= n
    IN /\ (/\ last.op \in {"replace_lines", "delete_lines"}
           /\ FileRead
           /\ outside(last.start_line))
          => (last.result = "OutOfRange" /\ last.writes = 0)
       /\ (last.op = "replace_at_line" /\ FileRead /\ outside(last.line_number))
          => (last.result = "OutOfRange" /\ last.writes = 0)
       /\ (/\ last.op = "replace_lines"
           /\ FileRead
           /\ ~outside(last.start_line)
           /\ last.end_line < last.start_line)
          => (last.result = "InvalidRange" /\ last.writes = 0)

C14_Witness ==
    /\ last.op = "replace_lines"
    /\ FileRead
    /\ last.start_line >= Len(last.lines)
    /\ last.end_line < last.start_line
    /\ Len(last.lines) > 1
    /\ last.result = "OutOfRange"
    /\ FileUntouched

(***************************************************************************)
(* C15: no error escapes an editing operation (read_lines, insert_lines,   *)
(* replace_lines, replace_at_line, smart_replace, delete_lines,            *)
(* find_in_file): every call returns one of the result texts; a missing    *)
(* path yields the NotFound failure, and an exception raised by the        *)
(* storage read or write yields a failure carrying the exception's         *)
(* message.                                                                *)
(***************************************************************************)
EditingOps == MutationOps \cup {"read_lines", "find_in_file"}

ResultKinds ==
    FailureKinds \cup {"ok", "IOFailure", "MultipleMatches", "NoMatches"}

C15_NoErrorEscapes ==
    last.op \in EditingOps
    => /\ last.result \in ResultKinds
       /\ ~last.existed => (last.result = "NotFound" /\ last.message = "File not found")
       /\ (last.existed /\ last.rd = "error")
             => (last.result = "IOFailure" /\ last.message = "read_text failed")
       /\ last.wr \in {"error", "truncated"}
             => (last.result = "IOFailure" /\ last.message = "write_text failed")

C15_Witness ==
    /\ last.op = "smart_replace"
    /\ last.wr = "truncated"
    /\ last.result = "IOFailure"
    /\ last.message = "write_text failed"
    /\ Len(last.lines) > 1

(***************************************************************************)
(* C16: each mutation call is one read-modify-write cycle without retry:   *)
(* it calls the storage read exactly once, first, and the storage write at *)
(* most once, last; a read or write that raises is reported and followed   *)
(* by no further storage access; and the lines the call works on are those *)
(* of the file as it is at the call, nothing being kept from earlier       *)
(* calls.                                                                  *)
(***************************************************************************)
C16_OneReadAtMostOneWrite ==
    last.op \in MutationOps
    => /\ last.trace \in {<<"read">>, <<"read", "write">>}
       /\ last.reads <= 1
       /\ last.writes = Len(last.trace) - 1
       /\ (~last.existed \/ last.rd = "error") => last.trace = <<"read">>
       /\ last.wr \in {"error", "truncated"}
             => (last.trace = <<"read", "write">> /\ last.result = "IOFailure")
       /\ (last.existed /\ last.rd = "ok")
             => last.lines = Split(TranslateNewlines(last.before), LF)

C16_Witness ==
    /\ last.op = "replace_lines"
    /\ last.wr = "error"
    /\ last.result = "IOFailure"
    /\ last.trace = <<"read", "write">>
    /\ last.writes = 1
    /\ FileUntouched

(***************************************************************************)
(* C17: the diagnostic explainer never affects the outcome of              *)
(* replace_at_line or smart_replace: whatever the explainer does (answers, *)
(* answers nothing, returns an error, times out, raises), the same call on *)
(* the same file has the same result kind and leaves the same file; and    *)
(* the explainer is consulted only by a call that fails with text not      *)
(* found or ambiguous, which has not written and does not write.           *)
(***************************************************************************)
SameCall(ai) ==
    LET f == FileOf(last.before)
        wr == IF last.wr = "none" THEN "ok" ELSE last.wr
    IN IF last.op = "replace_at_line"
       THEN replace_at_line(f, last.line_number, last.old_text, last.new_text,
                            last.rd, wr, ai)
       ELSE smart_replace(f, last.old_text, last.new_text, last.expected_line,
                          last.rd, wr, ai)

C17_ExplainerNeverDecides ==
    (last.op \in {"replace_at_line", "smart_replace"} /\ FileRead)
    => /\ \A ai \in ExplainerOutcomes :
              LET o == SameCall(ai) IN o.out.result = last.result /\ o.file = file
       /\ last.explainer_calls <= 1
       /\ last.explainer_calls = 1
             => /\ last.result \in {"TextNotFound", "Ambiguous"}
                /\ last.writes = 0
                /\ FileUntouched

C17_Witness ==
    /\ last.op = "replace_at_line"
    /\ last.explainer_calls = 1
    /\ last.ai = "raises"
    /\ last.result = "TextNotFound"
    /\ Len(last.lines) > 1
    /\ FileUntouched

(***************************************************************************)
(* C18: when the explainer call fails (missing credentials, network error, *)
(* error response, timeout), the failure is swallowed and the result has   *)
(* no AI-analysis section: no text of the explainer's error is in it.      *)
(***************************************************************************)
C18_FailedExplainerIsOmitted ==
    (/\ last.op \in {"replace_at_line", "smart_replace"}
     /\ last.explainer_calls = 1
     /\ last.ai \in {"error", "timeout", "raises"})
    => last.ai_section = "none"

(***************************************************************************)
(* C19: find_in_file is side-effect-free and, for every file, pattern and  *)
(* max_matches (max_matches <= 0 included), reports exactly the lines that *)
(* contain the pattern as a case-insensitive substring, in ascending line  *)
(* order, and never more than max_matches of them: the first               *)
(* min(N, max(0, max_matches)) of the N matching lines.                    *)
(***************************************************************************)
C19_FindReportsCappedMatches ==
    (last.op = "find_in_file" /\ FileRead)
    => LET holding == {k - 1 : k \in LinesHolding([j \in 1..Len(last.lines) |->
                                                       Lower(last.lines[j])],
                                                  Lower(last.pattern))}
           listed == {last.listed[k] : k \in 1..Len(last.listed)}
           cap == IF last.max_matches < 0 THEN 0 ELSE last.max_matches
       IN /\ last.writes = 0
          /\ FileUntouched
          /\ \A j, k \in 1..Len(last.listed) : j < k => last.listed[j] < last.listed[k]
          /\ listed \subseteq holding
          /\ \A h \in holding \ listed : \A l \in listed : l < h
          /\ Len(last.listed) <= cap
          /\ Len(last.listed) = IF Cardinality(holding) < cap THEN Cardinality(holding)
                                ELSE cap

(***************************************************************************)
(* C20: two mutation calls on the same file run without lock or version    *)
(* check: when both read before either writes and the first write is       *)
(* complete before the second begins, the file ends up with exactly what   *)
(* the second writer computed from the content it read, which is what its  *)
(* call alone would have left, the first writer's change is absent, and    *)
(* both calls report success.                                              *)
(***************************************************************************)
\* both calls are over, both had a change to write, both read before either
\* wrote, and caller `first` finished its write before the other's began
ReadReadWriteWrite(first) ==
    /\ \A c \in Callers : calls[c].pc = "done" /\ calls[c].writing
    /\ Len(order) >= 4
    /\ order[1][2] = "read" /\ order[2][2] = "read"
    /\ order[3] = <<first, "open">>
    /\ order[4] = <<first, "flush">>

C20_LastWriteWins ==
    \A first \in Callers :
        ReadReadWriteWrite(first)
        => LET second == CHOOSE c \in Callers : c # first
               original == FileOf(Join(calls[second].seen, LF))
           IN /\ calls[first].result = "ok"
              /\ calls[second].result = "ok"
              /\ calls[first].seen = calls[second].seen
              /\ file.data = calls[second].pending
              /\ file.data = RunAlone(original, calls[second]).file.data

C20_Witness ==
    /\ ReadReadWriteWrite(1)
    /\ calls[1].op = "replace_lines"
    /\ calls[2].op = "delete_lines"
    /\ Len(calls[1].seen) = 3
    /\ calls[1].pending # calls[2].pending
    /\ calls[2].result = "ok"
    /\ file.data = calls[2].pending

(***************************************************************************)
(* C21: the write-back of a successful mutation is atomic: a call that     *)
(* reads the file while another call is writing it observes either the     *)
(* complete content before the mutation or the complete content after it,  *)
(* never an empty or partly written file.                                  *)
(***************************************************************************)
\* caller `reader` read the file after caller `writer` had opened it for
\* writing and before any other step, and the writer's call succeeded
ReadDuringWrite(writer, reader) ==
    /\ writer # reader
    /\ Len(order) >= 3
    /\ order[1] = <<writer, "read">>
    /\ order[2] = <<writer, "open">>
    /\ order[3] = <<reader, "read">>
    /\ calls[writer].result = "ok"

C21_WriteBackIsAtomic ==
    \A writer, reader \in Callers :
        ReadDuringWrite(writer, reader)
        => calls[reader].seen \in {calls[writer].seen,
                                   Split(TranslateNewlines(calls[writer].pending), LF)}

(***************************************************************************)
(* C22: reading a file into lines and writing lines back is lossless: for  *)
(* every file content (a trailing newline, consecutive newlines and        *)
(* carriage-return line endings included) the lines a call reads, joined   *)
(* with a newline, are the original content exactly.                       *)
(***************************************************************************)
C22_ReadJoinIsLossless ==
    (last.op \in EditingOps /\ FileRead)
    => Join(last.lines, LF) = last.before

(***************************************************************************)
(* C23: for every line sequence, target and threshold, the candidates the  *)
(* fuzzy matcher returns are sorted by descending score, candidates of     *)
(* equal score by ascending line number; there are at most 5 of them; none *)
(* is a blank (empty or whitespace-only) line; every score lies in [0, 1]; *)
(* and no admitted candidate that is left out has a higher score than one  *)
(* that is returned.                                                       *)
(***************************************************************************)
\* the candidates admitted before the sort and the cut
Admitted == SimilarFrom(last.lines, Strip(Lower(last.target)), last.threshold, 0)

C23_CandidatesSortedAndCut ==
    last.op = "find_similar_lines"
    => LET r == last.similar
           returned == {r[k] : k \in 1..Len(r)}
           admitted == {Admitted[k] : k \in 1..Len(Admitted)}
       IN /\ \A j, k \in 1..Len(r) :
                 j < k => /\ ScoreGE(r[j].score, r[k].score)
                          /\ ScoreGE(r[k].score, r[j].score) => r[j].ln < r[k].ln
          /\ Len(r) <= 5
          /\ \A k \in 1..Len(r) :
                 /\ r[k].ln \in 0..(Len(last.lines) - 1)
                 /\ Strip(last.lines[r[k].ln + 1]) # <<>>
                 /\ 0 <= r[k].score.num
                 /\ r[k].score.num <= r[k].score.den
          /\ returned \subseteq admitted
          /\ \A c \in admitted \ returned :
                 \A kept \in returned : ScoreGE(kept.score, c.score)

C23_Witness ==
    /\ last.op = "find_similar_lines"
    /\ Len(Admitted) > 5
    /\ Len(last.similar) = 5
    /\ last.similar[1].score = last.similar[2].score
    /\ last.similar[1].ln < last.similar[2].ln
    /\ ScoreGT(last.similar[2].score, last.similar[3].score)
    /\ \E k \in 1..Len(last.lines) : Strip(last.lines[k]) = <<>>

(***************************************************************************)
(* C24: in every result of the fuzzy matcher a candidate found by          *)
(* substring containment is in the maximum score band: no candidate        *)
(* admitted only by its similarity ratio has a higher score than, or is    *)
(* ranked before, a substring-containment candidate.                       *)
(***************************************************************************)
C24_SubstringIsTopBand ==
    last.op = "find_similar_lines"
    => \A j, k \in 1..Len(last.similar) :
           (last.similar[j].how = "ratio" /\ last.similar[k].how = "substring")
           => (~ScoreGT(last.similar[j].score, last.similar[k].score) /\ k < j)

(***************************************************************************)
(* C25: smart_replace finds its target by a case-insensitive literal       *)
(* search over all lines: the lines that contain old_text up to letter     *)
(* case decide between the not-found, the unique and the ambiguous case.   *)
(***************************************************************************)
\* the lines that hold old_text up to letter case
MatchLinesIgnoringCase(lines, old_text) ==
    SelectSeq([k \in 1..Len(lines) |-> k - 1],
              LAMBDA ln : Contains(Lower(lines[ln + 1]), Lower(old_text)))

C25_LiteralSearchIgnoresCase ==
    (last.op = "smart_replace" /\ FileRead /\ last.expected_line = {})
    => LET n == Len(MatchLinesIgnoringCase(last.lines, last.old_text)) IN
       /\ n = 0 <=> last.result = "TextNotFound"
       /\ n = 1 <=> last.result \in {"ok", "IOFailure"}
       /\ n > 1 <=> last.result = "Ambiguous"

(***************************************************************************)
(* C26: the range and the count delete_lines reports on success are the    *)
(* lines it removed: the count is len(before) - len(after) and the last    *)
(* line reported is the index of the last removed line, also when end      *)
(* exceeds the file length.                                                *)
(***************************************************************************)
C26_DeleteReportsWhatItRemoved ==
    (last.op = "delete_lines" /\ last.result = "ok")
    => LET after == SliceTo(last.lines, last.start_line)
                    \o SliceFrom(last.lines, last.end_line)
           removed == Len(last.lines) - Len(after)
       IN /\ file.data = Join(after, LF)
          /\ last.count = removed
          /\ removed > 0 => last.reported_last = last.start_line + removed - 1

(***************************************************************************)
(* C27: when smart_replace replaces on the line it selected, every         *)
(* occurrence of old_text on that line is replaced, not only the first,    *)
(* and no multiplicity warning is given, unlike replace_at_line, which     *)
(* writes only when the line holds old_text once; the other lines are      *)
(* written as they were read, also when new_text contains old_text.        *)
(***************************************************************************)
\* the pieces of s around the occurrences of old, left to right; an empty
\* old occurs before every character and at the end
RECURSIVE Pieces(_, _)
Pieces(s, old) ==
    IF old = <<>> THEN <<<<>>>> \o [k \in 1..Len(s) |-> <<s[k]>>] \o <<<<>>>>
    ELSE IF ~Contains(s, old) THEN <<s>>
    ELSE LET k == CHOOSE k \in 1..Len(s) :
                      /\ OccursAt(s, old, k)
                      /\ \A j \in 1..(k - 1) : ~OccursAt(s, old, j)
         IN <<SubSeq(s, 1, k - 1)>> \o Pieces(SubSeq(s, k + Len(old), Len(s)), old)

\* the pieces put together again with `new` between them
RECURSIVE Glue(_, _)
Glue(pieces, new) ==
    IF Len(pieces) = 1 THEN pieces[1]
    ELSE pieces[1] \o new \o Glue(Tail(pieces), new)

C27_SmartReplaceReplacesEveryOccurrence ==
    /\ (last.op = "smart_replace" /\ FileRead)
       => /\ last.result # "MultipleMatches"
          /\ last.result = "ok"
             => LET line == last.lines[last.at + 1]
                    pieces == Pieces(line, last.old_text)
                IN /\ Len(pieces) = Count(line, last.old_text) + 1
                   /\ Len(pieces) >= 2
                   /\ file.data = Join([last.lines EXCEPT
                                           ![last.at + 1] = Glue(pieces, last.new_text)],
                                       LF)
    /\ (last.op = "replace_at_line" /\ last.result = "ok")
       => Count(last.lines[last.line_number + 1], last.old_text) = 1

C27_Witness ==
    /\ last.op = "smart_replace"
    /\ last.result = "ok"
    /\ last.old_text # <<>>
    /\ Count(last.lines[last.at + 1], last.old_text) >= 2
    /\ Contains(last.new_text, last.old_text)
    /\ Len(last.lines) >= 2
    /\ file.data # last.before

FirstLineArgument ==
    IF last.op = "insert_lines" THEN last.line_number ELSE last.start_line

C29_AlwaysAtLeastOneLine ==
    /\ file.exists => Len(Split(TranslateNewlines(file.data), LF)) >= 1
    /\ (file.exists /\ file.data = <<>>)
       => Split(TranslateNewlines(file.data), LF) = <<<<>>>>
    /\ (last.op \in {"insert_lines", "replace_lines", "delete_lines"} /\ FileRead)
       => /\ Len(last.lines) >= 1
          /\ FirstLineArgument = 0 => last.result # "OutOfRange"
    /\ (last.op = "delete_lines" /\ last.result = "ok"
          /\ Len(last.deleted_content) = Len(last.lines))
       => /\ file.exists
          /\ file.data = <<>>

C29_Witness ==
    /\ last.op = "delete_lines"
    /\ last.result = "ok"
    /\ Len(last.lines) >= 2
    /\ Len(last.deleted_content) = Len(last.lines)
    /\ last.before # <<>>
    /\ file.data = <<>>
    /\ Split(TranslateNewlines(file.data), LF) = <<<<>>>>

(***************************************************************************)
(* C30: after any sequence of start_search, get_more_search_results,       *)
(* stop_search and list_searches calls, a session id is in the table of    *)
(* active searches iff some start_search returned it with success and no   *)
(* stop_search was called on it since; a start_search that fails registers *)
(* no session; get_more_search_results changes neither the table nor a     *)
(* session's results, and answers not-found for a stopped or unknown id.   *)
(***************************************************************************)
C30_SearchTableLifecycle ==
    /\ \A id \in SearchIds :
           id \in DOMAIN active_searches <=> session_history[id] = "started"
    /\ DOMAIN active_searches \subseteq SearchIds
    /\ (search_call.op = "start_search" /\ search_call.result # "started")
       => active_searches = search_call.before
    /\ search_call.op \in {"get_more_search_results", "list_searches"}
       => active_searches = search_call.before
    /\ search_call.op = "get_more_search_results"
       => (session_history[search_call.sessionId] \in {"never", "stopped"}
              <=> search_call.result = "NotFound")

C30_Witness ==
    /\ search_call.op = "get_more_search_results"
    /\ session_history[search_call.sessionId] = "stopped"
    /\ search_call.result = "NotFound"
    /\ \E id \in DOMAIN active_searches : active_searches[id].results # <<>>

====
